---------------------------- MODULE Spec2Model ----------------------------
(***************************************************************************)
(* The AnIML codecs of typescript/src/index.ts and the generic validate    *)
(* function, as a state machine: a state is the memo of the lazy codecs    *)
(* forced so far together with the last call of validate and its outcome.  *)
(***************************************************************************)
EXTENDS Integers, Sequences, FiniteSets, TLC

(***************************************************************************)
(* Bounds of the model.                                                    *)
(***************************************************************************)
MaxCalls == 1
MaxRepeatCalls == 3
MaxValues == 3
MaxDepth == 3

(***************************************************************************)
(* The values validate receives (its parameter is typed unknown): tagged   *)
(* so that values of different JavaScript types can be compared.           *)
(***************************************************************************)
JUndefined == [k |-> "undefined"]
JNull == [k |-> "null"]
JString(s) == [k |-> "string", v |-> s]
JNumber(n) == [k |-> "number", v |-> n]
JArray(seq) == [k |-> "array", v |-> seq]
JObject(f) == [k |-> "object", v |-> f]
JBoolean(b) == [k |-> "boolean", v |-> b]
\* The number sign * 2^exp, for the numbers beyond the integers of the
\* model checker (sign is 1 or -1).
JPow2(sign, exp) == [k |-> "number", exp |-> exp, sign |-> sign]

EmptyProps == [key \in {} |-> JUndefined]

\* u[key] of JavaScript: undefined when the object has no such property.
Get(u, key) == IF key \in DOMAIN u.v THEN u.v[key] ELSE JUndefined

(***************************************************************************)
(* fp-ts Either, the result of codec.decode.                               *)
(***************************************************************************)
Right(a) == [tag |-> "Right", right |-> a]
Left(e) == [tag |-> "Left", left |-> e]
isLeft(r) == r.tag = "Left"

(***************************************************************************)
(* io-ts DecodeError: a forest (sequence of trees, in the order the        *)
(* errors are concatenated).  A leaf holds the value that did not decode   *)
(* and what was expected; the other nodes wrap the errors of a property,   *)
(* an array element, a union member or a lazy codec.                       *)
(***************************************************************************)
Leaf(u, expected) == [s |-> "leaf", actual |-> u, expected |-> expected]
Key(key, e) == [s |-> "key", key |-> key, kind |-> "required", sub |-> e]
Index(i, e) == [s |-> "index", index |-> i, kind |-> "optional", sub |-> e]
Member(i, e) == [s |-> "member", index |-> i, sub |-> e]
Lazy(id, e) == [s |-> "lazy", id |-> id, sub |-> e]

RECURSIVE Flatten(_)
\* The concatenation of a sequence of sequences.
Flatten(ss) == IF ss = <<>> THEN <<>> ELSE Head(ss) \o Flatten(Tail(ss))

(***************************************************************************)
(* The decoders of io-ts/Decoder the codecs are built from.                *)
(***************************************************************************)
DString == [c |-> "string"]
DNumber == [c |-> "number"]
DNullable(or) == [c |-> "nullable", or |-> or]
DArray(item) == [c |-> "array", item |-> item]
Prop(key, codec) == [key |-> key, codec |-> codec]
DStruct(properties) == [c |-> "struct", properties |-> properties]
DLazy(id) == [c |-> "lazy", id |-> id]

AnIMLCodec == DLazy("AnIML")
SampleSetCodec == DLazy("SampleSet")
AuditTrailEntrySetCodec == DLazy("AuditTrailEntrySet")
ExperimentStepSetCodec == DLazy("ExperimentStepSet")
SampleCodec == DLazy("Sample")
AuditTrailEntryCodec == DLazy("AuditTrailEntry")
TemplateCodec == DLazy("Template")
ExperimentStepCodec == DLazy("ExperimentStep")
DiffCodec == DLazy("Diff")
AuthorCodec == DLazy("Author")
SoftwareCodec == DLazy("Software")
TagSetCodec == DLazy("TagSet")
ResultCodec == DLazy("Result")
MethodCodec == DLazy("Method")
TechniqueCodec == DLazy("Technique")
InfrastructureCodec == DLazy("Infrastructure")
TagCodec == DLazy("Tag")
CategoryCodec == DLazy("Category")
DeviceCodec == DLazy("Device")
ExtensionCodec == DLazy("Extension")
ExperimentDataReferenceSetCodec == DLazy("ExperimentDataReferenceSet")
ParentDataPointReferenceSetCodec == DLazy("ParentDataPointReferenceSet")
SampleReferenceSetCodec == DLazy("SampleReferenceSet")
SeriesSetCodec == DLazy("SeriesSet")
ParameterCodec == DLazy("Parameter")
ExperimentDataReferenceCodec == DLazy("ExperimentDataReference")
ExperimentDataBulkReferenceCodec == DLazy("ExperimentDataBulkReference")
ParentDataPointReferenceCodec == DLazy("ParentDataPointReference")
SampleReferenceCodec == DLazy("SampleReference")
SampleInheritanceCodec == DLazy("SampleInheritance")
SeriesCodec == DLazy("Series")
SIUnitCodec == DLazy("SIUnit")
EndValueCodec == DLazy("EndValue")
IndividualValueSetCodec == DLazy("IndividualValueSet")
UnitCodec == DLazy("Unit")
AutoIncrementedValueSetCodec == DLazy("AutoIncrementedValueSet")
EncodedValueSetCodec == DLazy("EncodedValueSet")
StartValueCodec == DLazy("StartValue")
IncrementCodec == DLazy("Increment")

AnIMLStruct == DStruct(<<
    Prop("version", DString),
    Prop("sample_set", DNullable(SampleSetCodec)),
    Prop("experiment_step_set", DNullable(ExperimentStepSetCodec)),
    Prop("audit_trail_entry_set", DNullable(AuditTrailEntrySetCodec))
>>)
\* The SampleSet codec with its list allowed to be null.
SampleSetStruct_SampleNullable == DStruct(<<
    Prop("sample", DNullable(DArray(SampleCodec)))
>>)

SampleSetStruct == DStruct(<<
    Prop("sample", DArray(SampleCodec))
>>)
AuditTrailEntrySetStruct == DStruct(<<
    Prop("audit_trail_entry", DArray(AuditTrailEntryCodec))
>>)
ExperimentStepSetStruct == DStruct(<<
    Prop("experiment_step", DArray(ExperimentStepCodec)),
    Prop("template", DArray(TemplateCodec))
>>)
\* The Sample codec with the name property left out.
SampleStruct_NoName == DStruct(<<
    Prop("sample_id", DString),
    Prop("barcode", DNullable(DString)),
    Prop("comment", DNullable(DString)),
    Prop("derived", DNullable(DString)),
    Prop("container_type", DNullable(DString)),
    Prop("container_id", DNullable(DString)),
    Prop("location_in_container", DNullable(DString)),
    Prop("source_data_location", DNullable(DString)),
    Prop("tag_set", DNullable(TagSetCodec)),
    Prop("category", DArray(CategoryCodec))
>>)

SampleStruct == DStruct(<<
    Prop("name", DString),
    Prop("sample_id", DString),
    Prop("barcode", DNullable(DString)),
    Prop("comment", DNullable(DString)),
    Prop("derived", DNullable(DString)),
    Prop("container_type", DNullable(DString)),
    Prop("container_id", DNullable(DString)),
    Prop("location_in_container", DNullable(DString)),
    Prop("source_data_location", DNullable(DString)),
    Prop("tag_set", DNullable(TagSetCodec)),
    Prop("category", DArray(CategoryCodec))
>>)

AuditTrailEntryStruct == DStruct(<<
    Prop("timestamp", DString),
    Prop("author", AuthorCodec),
    Prop("action", DString),
    Prop("software", DNullable(SoftwareCodec)),
    Prop("reason", DNullable(DString)),
    Prop("comment", DNullable(DString)),
    Prop("diff", DArray(DiffCodec)),
    Prop("reference", DArray(DString))
>>)
TemplateStruct == DStruct(<<
    Prop("name", DString),
    Prop("template_id", DString),
    Prop("source_data_location", DNullable(DString)),
    Prop("tag_set", DNullable(TagSetCodec)),
    Prop("technique", DNullable(TechniqueCodec)),
    Prop("infrastructure", DNullable(InfrastructureCodec)),
    Prop("method", DNullable(MethodCodec)),
    Prop("result", DArray(ResultCodec))
>>)
ExperimentStepStruct == DStruct(<<
    Prop("name", DString),
    Prop("experiment_step_id", DString),
    Prop("template_used", DNullable(DString)),
    Prop("comment", DNullable(DString)),
    Prop("source_data_location", DNullable(DString)),
    Prop("tag_set", DNullable(TagSetCodec)),
    Prop("technique", DNullable(TechniqueCodec)),
    Prop("infrastructure", DNullable(InfrastructureCodec)),
    Prop("method", DNullable(MethodCodec)),
    Prop("result", DArray(ResultCodec))
>>)
DiffStruct == DStruct(<<
    Prop("scope", DString),
    Prop("changed_item", DString),
    Prop("old_value", DString),
    Prop("new_value", DString)
>>)
AuthorStruct == DStruct(<<
    Prop("user_type", DString),
    Prop("name", DString),
    Prop("affiliation", DNullable(DString)),
    Prop("role", DNullable(DString)),
    Prop("email", DNullable(DString)),
    Prop("phone", DNullable(DString)),
    Prop("location", DNullable(DString))
>>)
SoftwareStruct == DStruct(<<
    Prop("name", DString),
    Prop("manufacturer", DNullable(DString)),
    Prop("version", DNullable(DString)),
    Prop("operating_system", DNullable(DString))
>>)
TagSetStruct == DStruct(<<
    Prop("tag", DArray(TagCodec))
>>)
\* The Result codec with series_set declared as a list.
ResultStruct_SeriesSetMultiple == DStruct(<<
    Prop("name", DString),
    Prop("series_set", DArray(SeriesSetCodec)),
    Prop("category", DArray(CategoryCodec))
>>)

ResultStruct == DStruct(<<
    Prop("name", DString),
    Prop("series_set", DNullable(SeriesSetCodec)),
    Prop("category", DArray(CategoryCodec))
>>)
MethodStruct == DStruct(<<
    Prop("name", DNullable(DString)),
    Prop("author", DNullable(AuthorCodec)),
    Prop("device", DNullable(DeviceCodec)),
    Prop("software", DNullable(SoftwareCodec)),
    Prop("category", DArray(CategoryCodec))
>>)
TechniqueStruct == DStruct(<<
    Prop("name", DString),
    Prop("uri", DString),
    Prop("sha256", DNullable(DString)),
    Prop("extension", DArray(ExtensionCodec))
>>)
InfrastructureStruct == DStruct(<<
    Prop("sample_reference_set", DNullable(SampleReferenceSetCodec)),
    Prop("parent_data_point_reference_set", DNullable(ParentDataPointReferenceSetCodec)),
    Prop("experiment_data_reference_set", DNullable(ExperimentDataReferenceSetCodec)),
    Prop("timestamp", DNullable(DString))
>>)
\* The Tag codec with value not allowed to be null.
TagStruct_ValueString == DStruct(<<
    Prop("name", DString),
    Prop("value", DString)
>>)

TagStruct == DStruct(<<
    Prop("name", DString),
    Prop("value", DNullable(DString))
>>)
CategoryStruct == DStruct(<<
    Prop("name", DString),
    Prop("parameter", DArray(ParameterCodec)),
    Prop("series_set", DArray(SeriesSetCodec)),
    Prop("category", DArray(CategoryCodec))
>>)
DeviceStruct == DStruct(<<
    Prop("name", DString),
    Prop("device_identifier", DNullable(DString)),
    Prop("manufacturer", DNullable(DString)),
    Prop("firmware_version", DNullable(DString)),
    Prop("serial_number", DNullable(DString))
>>)
ExtensionStruct == DStruct(<<
    Prop("uri", DString),
    Prop("name", DString),
    Prop("sha256", DNullable(DString))
>>)
ExperimentDataReferenceSetStruct == DStruct(<<
    Prop("experiment_data_reference", DArray(ExperimentDataReferenceCodec)),
    Prop("experiment_data_bulk_reference", DArray(ExperimentDataBulkReferenceCodec))
>>)
ParentDataPointReferenceSetStruct == DStruct(<<
    Prop("parent_data_point_reference", DArray(ParentDataPointReferenceCodec))
>>)
SampleReferenceSetStruct == DStruct(<<
    Prop("sample_reference", DArray(SampleReferenceCodec)),
    Prop("sample_inheritance", DArray(SampleInheritanceCodec))
>>)
SeriesSetStruct == DStruct(<<
    Prop("name", DString),
    Prop("length", DString),
    Prop("series", DArray(SeriesCodec))
>>)
ParameterStruct == DStruct(<<
    Prop("name", DString),
    Prop("parameter_type", DString),
    Prop("value", DNumber),
    Prop("unit", DNullable(UnitCodec))
>>)
ExperimentDataReferenceStruct == DStruct(<<
    Prop("role", DString),
    Prop("data_purpose", DString),
    Prop("experiment_step_id", DString)
>>)
ExperimentDataBulkReferenceStruct == DStruct(<<
    Prop("role", DString),
    Prop("data_purpose", DString),
    Prop("experiment_step_id_prefix", DString)
>>)
ParentDataPointReferenceStruct == DStruct(<<
    Prop("series_id", DString),
    Prop("start_value", StartValueCodec),
    Prop("end_value", DNullable(EndValueCodec))
>>)
SampleReferenceStruct == DStruct(<<
    Prop("sample_id", DString),
    Prop("role", DString),
    Prop("sample_purpose", DString)
>>)
SampleInheritanceStruct == DStruct(<<
    Prop("role", DString),
    Prop("sample_purpose", DString)
>>)
\* The Series codec with a value_set that may not be null.
SeriesStruct_ValueSetRequired == DStruct(<<
    Prop("name", DString),
    Prop("dependency", DString),
    Prop("series_id", DString),
    Prop("series_type", DString),
    Prop("visible", DNullable(DString)),
    Prop("plot_scale", DNullable(DString)),
    Prop("value_set", IndividualValueSetCodec),
    Prop("unit", DNullable(UnitCodec))
>>)

SeriesStruct == DStruct(<<
    Prop("name", DString),
    Prop("dependency", DString),
    Prop("series_id", DString),
    Prop("series_type", DString),
    Prop("visible", DNullable(DString)),
    Prop("plot_scale", DNullable(DString)),
    Prop("value_set", DNullable(IndividualValueSetCodec)),
    Prop("unit", DNullable(UnitCodec))
>>)

SIUnitStruct == DStruct(<<
    Prop("factor", DNullable(DString)),
    Prop("exponent", DNullable(DString)),
    Prop("offset", DNullable(DString))
>>)
EndValueStruct == DStruct(<<
    Prop("value", DNumber)
>>)
\* The IndividualValueSet codec with the values property left out.
IndividualValueSetStruct_NoValues == DStruct(<<
    Prop("start_index", DNullable(DString)),
    Prop("end_index", DNullable(DString))
>>)

IndividualValueSetStruct == DStruct(<<
    Prop("values", DArray(DNumber)),
    Prop("start_index", DNullable(DString)),
    Prop("end_index", DNullable(DString))
>>)
UnitStruct == DStruct(<<
    Prop("label", DString),
    Prop("quantity", DNullable(DString)),
    Prop("si_unit", DArray(SIUnitCodec))
>>)
AutoIncrementedValueSetStruct == DStruct(<<
    Prop("start_value", StartValueCodec),
    Prop("increment", IncrementCodec),
    Prop("start_index", DNullable(DString)),
    Prop("end_index", DNullable(DString))
>>)
EncodedValueSetStruct == DStruct(<<
    Prop("start_index", DNullable(DString)),
    Prop("end_index", DNullable(DString))
>>)
StartValueStruct == DStruct(<<
    Prop("value", DNumber)
>>)
IncrementStruct == DStruct(<<
    Prop("value", DNumber)
>>)

Thunk(id) ==
    CASE id = "AnIML" -> AnIMLStruct
      [] id = "SampleSet" -> SampleSetStruct
      [] id = "AuditTrailEntrySet" -> AuditTrailEntrySetStruct
      [] id = "ExperimentStepSet" -> ExperimentStepSetStruct
      [] id = "Sample" -> SampleStruct
      [] id = "AuditTrailEntry" -> AuditTrailEntryStruct
      [] id = "Template" -> TemplateStruct
      [] id = "ExperimentStep" -> ExperimentStepStruct
      [] id = "Diff" -> DiffStruct
      [] id = "Author" -> AuthorStruct
      [] id = "Software" -> SoftwareStruct
      [] id = "TagSet" -> TagSetStruct
      [] id = "Result" -> ResultStruct
      [] id = "Method" -> MethodStruct
      [] id = "Technique" -> TechniqueStruct
      [] id = "Infrastructure" -> InfrastructureStruct
      [] id = "Tag" -> TagStruct
      [] id = "Category" -> CategoryStruct
      [] id = "Device" -> DeviceStruct
      [] id = "Extension" -> ExtensionStruct
      [] id = "ExperimentDataReferenceSet" -> ExperimentDataReferenceSetStruct
      [] id = "ParentDataPointReferenceSet" -> ParentDataPointReferenceSetStruct
      [] id = "SampleReferenceSet" -> SampleReferenceSetStruct
      [] id = "SeriesSet" -> SeriesSetStruct
      [] id = "Parameter" -> ParameterStruct
      [] id = "ExperimentDataReference" -> ExperimentDataReferenceStruct
      [] id = "ExperimentDataBulkReference" -> ExperimentDataBulkReferenceStruct
      [] id = "ParentDataPointReference" -> ParentDataPointReferenceStruct
      [] id = "SampleReference" -> SampleReferenceStruct
      [] id = "SampleInheritance" -> SampleInheritanceStruct
      [] id = "Series" -> SeriesStruct
      [] id = "SIUnit" -> SIUnitStruct
      [] id = "EndValue" -> EndValueStruct
      [] id = "IndividualValueSet" -> IndividualValueSetStruct
      [] id = "Unit" -> UnitStruct
      [] id = "AutoIncrementedValueSet" -> AutoIncrementedValueSetStruct
      [] id = "EncodedValueSet" -> EncodedValueSetStruct
      [] id = "StartValue" -> StartValueStruct
      [] id = "Increment" -> IncrementStruct

CodecIds == {"AnIML", "SampleSet", "AuditTrailEntrySet", "ExperimentStepSet", "Sample", "AuditTrailEntry", "Template", "ExperimentStep", "Diff", "Author", "Software", "TagSet", "Result", "Method", "Technique", "Infrastructure", "Tag", "Category", "Device", "Extension", "ExperimentDataReferenceSet", "ParentDataPointReferenceSet", "SampleReferenceSet", "SeriesSet", "Parameter", "ExperimentDataReference", "ExperimentDataBulkReference", "ParentDataPointReference", "SampleReference", "SampleInheritance", "Series", "SIUnit", "EndValue", "IndividualValueSet", "Unit", "AutoIncrementedValueSet", "EncodedValueSet", "StartValue", "Increment"}

InterfaceRequired(id) ==
    CASE id = "AnIML" -> {"version"}
      [] id = "SampleSet" -> {}
      [] id = "AuditTrailEntrySet" -> {}
      [] id = "ExperimentStepSet" -> {}
      [] id = "Sample" -> {"name", "sample_id"}
      [] id = "AuditTrailEntry" -> {"timestamp", "author", "action"}
      [] id = "Template" -> {"name", "template_id"}
      [] id = "ExperimentStep" -> {"name", "experiment_step_id"}
      [] id = "Diff" -> {"scope", "changed_item", "old_value", "new_value"}
      [] id = "Author" -> {"user_type", "name"}
      [] id = "Software" -> {"name"}
      [] id = "TagSet" -> {}
      [] id = "Result" -> {"name"}
      [] id = "Method" -> {}
      [] id = "Technique" -> {"name", "uri"}
      [] id = "Infrastructure" -> {}
      [] id = "Tag" -> {"name"}
      [] id = "Category" -> {"name"}
      [] id = "Device" -> {"name"}
      [] id = "Extension" -> {"uri", "name"}
      [] id = "ExperimentDataReferenceSet" -> {}
      [] id = "ParentDataPointReferenceSet" -> {"parent_data_point_reference"}
      [] id = "SampleReferenceSet" -> {}
      [] id = "SeriesSet" -> {"name", "length", "series"}
      [] id = "Parameter" -> {"name", "parameter_type", "value"}
      [] id = "ExperimentDataReference" -> {"role", "data_purpose", "experiment_step_id"}
      [] id = "ExperimentDataBulkReference" -> {"role", "data_purpose", "experiment_step_id_prefix"}
      [] id = "ParentDataPointReference" -> {"series_id", "start_value"}
      [] id = "SampleReference" -> {"sample_id", "role", "sample_purpose"}
      [] id = "SampleInheritance" -> {"role", "sample_purpose"}
      [] id = "Series" -> {"name", "dependency", "series_id", "series_type"}
      [] id = "SIUnit" -> {}
      [] id = "EndValue" -> {"value"}
      [] id = "IndividualValueSet" -> {"values"}
      [] id = "Unit" -> {"label"}
      [] id = "AutoIncrementedValueSet" -> {"start_value", "increment"}
      [] id = "EncodedValueSet" -> {}
      [] id = "StartValue" -> {"value"}
      [] id = "Increment" -> {"value"}

\* The properties the interfaces type as lists (T[]).
InterfaceMultiple(id) ==
    CASE id = "AnIML" -> {}
      [] id = "SampleSet" -> {"sample"}
      [] id = "AuditTrailEntrySet" -> {"audit_trail_entry"}
      [] id = "ExperimentStepSet" -> {"experiment_step", "template"}
      [] id = "Sample" -> {"category"}
      [] id = "AuditTrailEntry" -> {"diff", "reference"}
      [] id = "Template" -> {"result"}
      [] id = "ExperimentStep" -> {"result"}
      [] id = "Diff" -> {}
      [] id = "Author" -> {}
      [] id = "Software" -> {}
      [] id = "TagSet" -> {"tag"}
      [] id = "Result" -> {"category"}
      [] id = "Method" -> {"category"}
      [] id = "Technique" -> {"extension"}
      [] id = "Infrastructure" -> {}
      [] id = "Tag" -> {}
      [] id = "Category" -> {"parameter", "series_set", "category"}
      [] id = "Device" -> {}
      [] id = "Extension" -> {}
      [] id = "ExperimentDataReferenceSet" -> {"experiment_data_reference", "experiment_data_bulk_reference"}
      [] id = "ParentDataPointReferenceSet" -> {"parent_data_point_reference"}
      [] id = "SampleReferenceSet" -> {"sample_reference", "sample_inheritance"}
      [] id = "SeriesSet" -> {"series"}
      [] id = "Parameter" -> {}
      [] id = "ExperimentDataReference" -> {}
      [] id = "ExperimentDataBulkReference" -> {}
      [] id = "ParentDataPointReference" -> {}
      [] id = "SampleReference" -> {}
      [] id = "SampleInheritance" -> {}
      [] id = "Series" -> {}
      [] id = "SIUnit" -> {}
      [] id = "EndValue" -> {}
      [] id = "IndividualValueSet" -> {"values"}
      [] id = "Unit" -> {"si_unit"}
      [] id = "AutoIncrementedValueSet" -> {}
      [] id = "EncodedValueSet" -> {}
      [] id = "StartValue" -> {}
      [] id = "Increment" -> {}

\* The properties each interface declares optional (with '?').
InterfaceOptional(id) ==
    CASE id = "AnIML" -> {"sample_set", "experiment_step_set", "audit_trail_entry_set"}
      [] id = "SampleSet" -> {"sample"}
      [] id = "AuditTrailEntrySet" -> {"audit_trail_entry"}
      [] id = "ExperimentStepSet" -> {"experiment_step", "template"}
      [] id = "Sample" -> {"barcode", "comment", "derived", "container_type", "container_id", "location_in_container", "source_data_location", "tag_set", "category"}
      [] id = "AuditTrailEntry" -> {"software", "reason", "comment", "diff", "reference"}
      [] id = "Template" -> {"source_data_location", "tag_set", "technique", "infrastructure", "method", "result"}
      [] id = "ExperimentStep" -> {"template_used", "comment", "source_data_location", "tag_set", "technique", "infrastructure", "method", "result"}
      [] id = "Diff" -> {}
      [] id = "Author" -> {"affiliation", "role", "email", "phone", "location"}
      [] id = "Software" -> {"manufacturer", "version", "operating_system"}
      [] id = "TagSet" -> {"tag"}
      [] id = "Result" -> {"series_set", "category"}
      [] id = "Method" -> {"name", "author", "device", "software", "category"}
      [] id = "Technique" -> {"sha256", "extension"}
      [] id = "Infrastructure" -> {"sample_reference_set", "parent_data_point_reference_set", "experiment_data_reference_set", "timestamp"}
      [] id = "Tag" -> {"value"}
      [] id = "Category" -> {"parameter", "series_set", "category"}
      [] id = "Device" -> {"device_identifier", "manufacturer", "firmware_version", "serial_number"}
      [] id = "Extension" -> {"sha256"}
      [] id = "ExperimentDataReferenceSet" -> {"experiment_data_reference", "experiment_data_bulk_reference"}
      [] id = "ParentDataPointReferenceSet" -> {}
      [] id = "SampleReferenceSet" -> {"sample_reference", "sample_inheritance"}
      [] id = "SeriesSet" -> {}
      [] id = "Parameter" -> {"unit"}
      [] id = "ExperimentDataReference" -> {}
      [] id = "ExperimentDataBulkReference" -> {}
      [] id = "ParentDataPointReference" -> {"end_value"}
      [] id = "SampleReference" -> {}
      [] id = "SampleInheritance" -> {}
      [] id = "Series" -> {"visible", "plot_scale", "value_set", "unit"}
      [] id = "SIUnit" -> {"factor", "exponent", "offset"}
      [] id = "EndValue" -> {}
      [] id = "IndividualValueSet" -> {"start_index", "end_index"}
      [] id = "Unit" -> {"quantity", "si_unit"}
      [] id = "AutoIncrementedValueSet" -> {"start_index", "end_index"}
      [] id = "EncodedValueSet" -> {"start_index", "end_index"}
      [] id = "StartValue" -> {}
      [] id = "Increment" -> {}

(***************************************************************************)
(* D.lazy memoizes its thunk: the first decode through a lazy codec calls  *)
(* the thunk and keeps the decoder it built, later decodes use the kept    *)
(* one.  memo maps the ids forced before this call to the kept decoders.   *)
(***************************************************************************)
\* A memo that hands out a decoder other than the one the thunk builds.
LazyGet_Stale(id, m) == IF id \in DOMAIN m THEN DStruct(<<>>) ELSE Thunk(id)

LazyGet(id, m) == IF id \in DOMAIN m THEN m[id] ELSE Thunk(id)

RECURSIVE Decode(_, _, _)
\* codec.decode(u), with the lazy codecs of m already forced.  The errors
\* of the properties of a struct and of the elements of an array are all
\* kept, in order; a struct is built from its declared properties only.
\* (D.number also refuses NaN, which no input here holds.)
Decode(codec, u, m) ==
    CASE codec.c = "string" ->
           IF u.k = "string" THEN Right(u) ELSE Left(<<Leaf(u, "string")>>)
      [] codec.c = "number" ->
           IF u.k = "number" THEN Right(u) ELSE Left(<<Leaf(u, "number")>>)
      [] codec.c = "nullable" ->
           IF u.k = "null" THEN Right(JNull)
           ELSE LET r == Decode(codec.or, u, m)
                IN  IF isLeft(r)
                    THEN Left(<<Member(0, <<Leaf(u, "null")>>), Member(1, r.left)>>)
                    ELSE r
      [] codec.c = "array" ->
           IF u.k # "array" THEN Left(<<Leaf(u, "Array<unknown>")>>)
           ELSE LET rs == [i \in 1..Len(u.v) |-> Decode(codec.item, u.v[i], m)]
                IN  IF \E i \in 1..Len(u.v) : isLeft(rs[i])
                    THEN Left(Flatten([i \in 1..Len(u.v) |->
                             IF isLeft(rs[i]) THEN <<Index(i - 1, rs[i].left)>> ELSE <<>>]))
                    ELSE Right(JArray([i \in 1..Len(u.v) |-> rs[i].right]))
      [] codec.c = "struct" ->
           IF u.k # "object" THEN Left(<<Leaf(u, "Record<string, unknown>")>>)
           ELSE LET ps == codec.properties
                    rs == [i \in 1..Len(ps) |-> Decode(ps[i].codec, Get(u, ps[i].key), m)]
                IN  IF \E i \in 1..Len(ps) : isLeft(rs[i])
                    THEN Left(Flatten([i \in 1..Len(ps) |->
                             IF isLeft(rs[i]) THEN <<Key(ps[i].key, rs[i].left)>> ELSE <<>>]))
                    ELSE Right(JObject([key \in {ps[i].key : i \in 1..Len(ps)} |->
                             rs[CHOOSE i \in 1..Len(ps) : ps[i].key = key].right]))
      [] codec.c = "lazy" ->
           LET r == Decode(LazyGet(codec.id, m), u, m)
           IN  IF isLeft(r) THEN Left(<<Lazy(codec.id, r.left)>>) ELSE r

RECURSIVE Forced(_, _, _)
\* The ids of the lazy codecs whose thunk codec.decode(u) reaches.
Forced(codec, u, m) ==
    CASE codec.c \in {"string", "number"} -> {}
      [] codec.c = "nullable" ->
           IF u.k = "null" THEN {} ELSE Forced(codec.or, u, m)
      [] codec.c = "array" ->
           IF u.k # "array" THEN {}
           ELSE UNION {Forced(codec.item, u.v[i], m) : i \in 1..Len(u.v)}
      [] codec.c = "struct" ->
           IF u.k # "object" THEN {}
           ELSE UNION {Forced(codec.properties[i].codec,
                              Get(u, codec.properties[i].key), m) :
                       i \in 1..Len(codec.properties)}
      [] codec.c = "lazy" ->
           {codec.id} \cup Forced(LazyGet(codec.id, m), u, m)

\* A lazy codec that hands the value on to itself instead of to the decoder
\* its thunk builds.
Children_LazyUnforced(codec, u, path, m) ==
    CASE codec.c \in {"string", "number"} -> <<>>
      [] codec.c = "nullable" ->
           IF u.k = "null" THEN <<>> ELSE <<[codec |-> codec.or, u |-> u, path |-> path]>>
      [] codec.c = "array" ->
           IF u.k # "array" THEN <<>>
           ELSE [i \in 1..Len(u.v) |->
                    [codec |-> codec.item, u |-> u.v[i], path |-> Append(path, [s |-> "index", index |-> i - 1])]]
      [] codec.c = "struct" ->
           IF u.k # "object" THEN <<>>
           ELSE [i \in 1..Len(codec.properties) |->
                    [codec |-> codec.properties[i].codec,
                     u |-> Get(u, codec.properties[i].key),
                     path |-> Append(path, [s |-> "property", key |-> codec.properties[i].key])]]
      [] codec.c = "lazy" -> <<[codec |-> codec, u |-> u, path |-> path]>>

\* The decodes codec.decode(u) makes next, one level down: the decoder, the
\* value and the place of the value in the input of each, in the order they
\* are made.  A leaf decoder, a null under D.nullable and a value of the
\* wrong kind end the descent.
Children(codec, u, path, m) ==
    CASE codec.c \in {"string", "number"} -> <<>>
      [] codec.c = "nullable" ->
           IF u.k = "null" THEN <<>> ELSE <<[codec |-> codec.or, u |-> u, path |-> path]>>
      [] codec.c = "array" ->
           IF u.k # "array" THEN <<>>
           ELSE [i \in 1..Len(u.v) |->
                    [codec |-> codec.item, u |-> u.v[i], path |-> Append(path, [s |-> "index", index |-> i - 1])]]
      [] codec.c = "struct" ->
           IF u.k # "object" THEN <<>>
           ELSE [i \in 1..Len(codec.properties) |->
                    [codec |-> codec.properties[i].codec,
                     u |-> Get(u, codec.properties[i].key),
                     path |-> Append(path, [s |-> "property", key |-> codec.properties[i].key])]]
      [] codec.c = "lazy" -> <<[codec |-> LazyGet(codec.id, m), u |-> u, path |-> path]>>

\* The decoders that hand the value on to another decoder at the same
\* place, rather than look into it themselves.
HandsOn(codec, u) ==
    codec.c = "lazy" \/ (codec.c = "nullable" /\ u.k # "null")

\* The line D.draw prints for one node of the error forest, without its
\* indentation.
DrawLine(e, depth) ==
    CASE e.s = "leaf" -> [depth |-> depth, s |-> "cannot decode",
                          actual |-> e.actual, expected |-> e.expected]
      [] e.s = "key" -> [depth |-> depth, s |-> "property", key |-> e.key]
      [] e.s = "index" -> [depth |-> depth, s |-> "index", index |-> e.index]
      [] e.s = "member" -> [depth |-> depth, s |-> "member", index |-> e.index]
      [] e.s = "lazy" -> [depth |-> depth, s |-> "lazy type", id |-> e.id]

RECURSIVE DrawForest(_, _)
\* D.draw: one line per node of the error forest, parents before children,
\* each at the depth of its indentation.
DrawForest(forest, depth) ==
    Flatten([i \in 1..Len(forest) |->
        IF forest[i].s = "leaf"
        THEN <<DrawLine(forest[i], depth)>>
        ELSE <<DrawLine(forest[i], depth)>> \o DrawForest(forest[i].sub, depth + 1)])

draw(e) == DrawForest(e, 0)

RECURSIVE FirstError(_)
\* The first branch only of an error forest.
FirstError(forest) ==
    IF forest = <<>> THEN <<>>
    ELSE IF forest[1].s = "leaf" THEN <<forest[1]>>
    ELSE <<[forest[1] EXCEPT !.sub = FirstError(forest[1].sub)]>>

\* A validate that reports the first error only.
validate_FailFast(codec, value, m) ==
    LET result == Decode(codec, value, m)
    IN  IF isLeft(result)
        THEN [kind |-> "throw", message |-> draw(FirstError(result.left))]
        ELSE [kind |-> "return", value |-> result.right]

\* A validate that hands a failure back instead of throwing it.
validate_ReturnsLeft(codec, value, m) ==
    LET result == Decode(codec, value, m)
    IN  IF isLeft(result)
        THEN [kind |-> "return", value |-> JUndefined]
        ELSE [kind |-> "return", value |-> result.right]

\* A validate that hands the input back when it does not decode.
validate_Lenient(codec, value, m) ==
    LET result == Decode(codec, value, m)
    IN  IF isLeft(result)
        THEN [kind |-> "return", value |-> value]
        ELSE [kind |-> "return", value |-> result.right]

\* A validate that returns its argument instead of the decoded value.
validate_ReturnsInput(codec, value, m) ==
    LET result == Decode(codec, value, m)
    IN  IF isLeft(result)
        THEN [kind |-> "throw", message |-> draw(result.left)]
        ELSE [kind |-> "return", value |-> value]

\* A validate that returns the Either instead of the value in it.
validate_ReturnsEither(codec, value, m) ==
    LET result == Decode(codec, value, m)
    IN  IF isLeft(result)
        THEN [kind |-> "throw", message |-> draw(result.left)]
        ELSE [kind |-> "return",
              value |-> JObject([key \in {"_tag", "right"} |->
                                    IF key = "_tag" THEN JString("Right") ELSE result.right])]

\* validate: the decoded value, or an Error thrown with the drawn errors as
\* its message.
validate(codec, value, m) ==
    LET result == Decode(codec, value, m)
    IN  IF isLeft(result)
        THEN [kind |-> "throw", message |-> draw(result.left)]
        ELSE [kind |-> "return", value |-> result.right]

(***************************************************************************)
(* The inputs the calls of validate are drawn from.                        *)
(***************************************************************************)
KeysOf(struct) == {struct.properties[i].key : i \in 1..Len(struct.properties)}

RECURSIVE MinimalOf(_)
\* The smallest value a codec accepts: null where null is allowed, the empty
\* array for a list.
MinimalOf(codec) ==
    CASE codec.c = "string" -> JString("a")
      [] codec.c = "number" -> JNumber(1)
      [] codec.c = "nullable" -> JNull
      [] codec.c = "array" -> JArray(<<>>)
      [] codec.c = "struct" ->
           JObject([key \in KeysOf(codec) |->
               MinimalOf(codec.properties[
                   CHOOSE i \in 1..Len(codec.properties) :
                       codec.properties[i].key = key].codec)])
      [] codec.c = "lazy" -> MinimalOf(Thunk(codec.id))

Minimal(id) == MinimalOf(DLazy(id))
Without(u, key) == JObject([x \in DOMAIN u.v \ {key} |-> u.v[x]])
With(u, key, val) ==
    JObject([x \in DOMAIN u.v \cup {key} |-> IF x = key THEN val ELSE u.v[x]])

Versions == {"0.90", "0.9", "0.91"}
SupportedVersion == "0.90"
Sections == {"sample_set", "experiment_step_set", "audit_trail_entry_set"}

\* AnIML documents: every version, with the three sections null, omitted or
\* present and empty.
DocNull(ver) == With(Minimal("AnIML"), "version", JString(ver))
DocOmitted(ver) == JObject([key \in {"version"} |-> JString(ver)])
DocEmpty(ver) ==
    JObject([key \in {"version"} \cup Sections |->
        CASE key = "version" -> JString(ver)
          [] key = "sample_set" -> Minimal("SampleSet")
          [] key = "experiment_step_set" -> Minimal("ExperimentStepSet")
          [] key = "audit_trail_entry_set" -> Minimal("AuditTrailEntrySet")])
DocInputs ==
    {<<"AnIML", d>> : d \in UNION {{DocNull(ver), DocOmitted(ver), DocEmpty(ver)} :
                                     ver \in Versions}}

\* Every entity, well formed and with each one of its properties omitted.
MissingInputs ==
    {<<id, Minimal(id)>> : id \in CodecIds}
    \cup UNION {{<<id, Without(Minimal(id), key)>> : key \in KeysOf(Thunk(id))} :
                id \in CodecIds}

Ids == {"a", "b"}
SampleOf(sid) == With(Minimal("Sample"), "sample_id", JString(sid))
StepOf(sid) == With(Minimal("ExperimentStep"), "experiment_step_id", JString(sid))
SeriesOf(sid) == With(Minimal("Series"), "series_id", JString(sid))
SampleSetOf(samples) == JObject([key \in {"sample"} |-> JArray(samples)])
StepSetOf(steps) ==
    With(Minimal("ExperimentStepSet"), "experiment_step", JArray(steps))
SeriesSetOf(series) == With(Minimal("SeriesSet"), "series", JArray(series))

\* Sets of two identified entities, with equal and with different ids.
PairInputs ==
    UNION {{<<"SampleSet", SampleSetOf(<<SampleOf(x), SampleOf(y)>>)>>,
            <<"ExperimentStepSet", StepSetOf(<<StepOf(x), StepOf(y)>>)>>,
            <<"SeriesSet", SeriesSetOf(<<SeriesOf(x), SeriesOf(y)>>)>>,
            <<"Category", With(Minimal("Category"), "series_set",
                   JArray(<<SeriesSetOf(<<SeriesOf(x)>>),
                            SeriesSetOf(<<SeriesOf(y)>>)>>))>>} :
           x \in Ids, y \in Ids}

\* The value sets of a Series: of each of the three kinds, and with the
\* fields of two kinds at once.
IndividualOf(values) == With(Minimal("IndividualValueSet"), "values", JArray(values))
AutoIncrementedOf(start, inc) ==
    With(With(Minimal("AutoIncrementedValueSet"),
              "start_value", JObject([key \in {"value"} |-> JNumber(start)])),
         "increment", JObject([key \in {"value"} |-> JNumber(inc)]))
Encoded == Minimal("EncodedValueSet")
TwoVariants ==
    With(With(IndividualOf(<<JNumber(1), JNumber(2)>>),
              "start_value", JObject([key \in {"value"} |-> JNumber(10)])),
         "increment", JObject([key \in {"value"} |-> JNumber(2)]))

\* Inputs with several defects: in two fields of one entity, in two elements
\* of one list, and in entities nested at different depths.
DefectInputs ==
    {<<"Sample", Without(Without(Minimal("Sample"), "name"), "sample_id")>>,
     <<"SampleSet", SampleSetOf(<<Without(SampleOf("a"), "name"),
                                  SampleOf("b"),
                                  Without(SampleOf("a"), "sample_id")>>)>>,
     <<"AnIML", With(DocOmitted("0.90"), "sample_set",
                     SampleSetOf(<<Without(SampleOf("a"), "category")>>))>>,
     <<"AnIML", With(Without(Minimal("AnIML"), "version"), "sample_set",
                     SampleSetOf(<<With(SampleOf("a"), "tag_set", JObject(EmptyProps))>>))>>,
     <<"AnIML", With(With(DocNull("0.90"), "version", JNumber(1)), "sample_set",
                     SampleSetOf(<<SampleOf("a"), JString("b"),
                                   With(SampleOf("b"), "category", JNull)>>))>>,
     <<"Sample", JArray(<<>>)>>,
     <<"SeriesSet", SeriesSetOf(<<With(SeriesOf("a"), "value_set",
                                       IndividualOf(<<JNumber(1), JString("x"), JNull>>))>>)>>}

ValueSets ==
    {JNull, IndividualOf(<<JNumber(1), JNumber(2), JNumber(3)>>),
     AutoIncrementedOf(10, 2), Encoded, TwoVariants}
SeriesInputs ==
    {<<"Series", With(Minimal("Series"), "value_set", vs)>> : vs \in ValueSets}
    \cup {<<"AutoIncrementedValueSet", AutoIncrementedOf(10, 2)>>,
          <<"EncodedValueSet", Encoded>>,
          <<"IndividualValueSet", IndividualOf(<<JNumber(1), JNumber(2), JNumber(3)>>)>>}

\* Entities with a field of an enumerated domain, inside and outside it.
DiffOf(scope) == With(Minimal("Diff"), "scope", JString(scope))
SampleReferenceOf(purpose) ==
    With(Minimal("SampleReference"), "sample_purpose", JString(purpose))
SeriesDependent(dep) == With(Minimal("Series"), "dependency", JString(dep))
EnumInputs ==
    {<<"Diff", DiffOf(x)>> : x \in {"element", "attribute", "document"}}
    \cup {<<"SampleReference", SampleReferenceOf(x)>> :
             x \in {"produced", "consumed", "stored"}}
    \cup {<<"Series", SeriesDependent(x)>> :
             x \in {"independent", "dependent", "both"}}

\* The entity, string or number a property holds, or holds a list of.
RECURSIVE ItemOf(_)
ItemOf(codec) ==
    CASE codec.c = "nullable" -> ItemOf(codec.or)
      [] codec.c = "array" -> ItemOf(codec.item)
      [] OTHER -> codec

PropCodec(id, key) ==
    Thunk(id).properties[CHOOSE i \in 1..Len(Thunk(id).properties) :
                             Thunk(id).properties[i].key = key].codec

\* Every entity with one property of the other cardinality: a single value
\* where the interface declares a list, a list of one value where it
\* declares a single one.
CardinalityInputs ==
    UNION {{<<id, With(Minimal(id), key,
                       IF key \in InterfaceMultiple(id)
                       THEN MinimalOf(ItemOf(PropCodec(id, key)))
                       ELSE JArray(<<MinimalOf(ItemOf(PropCodec(id, key)))>>))>> :
              key \in KeysOf(Thunk(id))} :
           id \in CodecIds}

\* Containers with their list empty.
EmptyListInputs ==
    {<<"SeriesSet", SeriesSetOf(<<>>)>>,
     <<"SeriesSet", SeriesSetOf(<<SeriesOf("a")>>)>>,
     <<"ParentDataPointReferenceSet", Minimal("ParentDataPointReferenceSet")>>,
     <<"ParentDataPointReferenceSet",
       With(Minimal("ParentDataPointReferenceSet"), "parent_data_point_reference",
            JArray(<<Minimal("ParentDataPointReference")>>))>>}

\* Value sets with every list of at most MaxValues numbers, alone and in a
\* Series.
Numbers == {JNumber(1), JNumber(2), JNumber(3)}
NumberLists == UNION {[1..n -> Numbers] : n \in 0..MaxValues}
SeriesWith(vs) == With(Minimal("Series"), "value_set", vs)
ValueListInputs ==
    {<<"IndividualValueSet", IndividualOf(vs)>> : vs \in NumberLists}
    \cup {<<"Series", SeriesWith(IndividualOf(vs))>> : vs \in NumberLists}

\* A value set with the index range given.
Ranged(vs, start, end) ==
    With(With(vs, "start_index", JString(start)), "end_index", JString(end))

\* SeriesSets of a declared length, whose Series hold as many values, fewer,
\* or a sub-range of them.
SeriesSetLen(len, series) ==
    With(SeriesSetOf(series), "length", JString(len))
LengthInputs ==
    {<<"SeriesSet", SeriesSetLen("3", <<SeriesWith(IndividualOf(vs))>>)>> :
        vs \in {<<JNumber(1), JNumber(2), JNumber(3)>>, <<JNumber(1), JNumber(2)>>}}
    \cup {<<"SeriesSet", SeriesSetLen("3",
              <<SeriesWith(Ranged(IndividualOf(<<JNumber(1), JNumber(2)>>), "0", "1"))>>)>>}

\* Series of each series_type with numbers, texts and booleans as values.
SeriesTyped(type, values) ==
    With(SeriesWith(IndividualOf(values)), "series_type", JString(type))
TypedInputs ==
    {<<"Series", SeriesTyped(type, values)>> :
        type \in {"I", "L", "F", "D", "S", "Boolean", "X"},
        values \in {<<JNumber(1), JNumber(2)>>,
                    <<JString("x"), JString("y")>>,
                    <<JBoolean(TRUE), JBoolean(FALSE)>>}}

\* Series of the integer types with values at and beyond the ends of the
\* 32-bit and 64-bit ranges.
WideInputs ==
    {<<"Series", SeriesTyped(type, <<JNumber(1), JPow2(sign, exp)>>)>> :
        type \in {"I", "L"}, sign \in {1, -1}, exp \in {30, 31, 32, 63, 64}}

\* SeriesSets whose one Series is given by a start value and an increment.
ProgressionInputs ==
    {<<"SeriesSet", SeriesSetLen(len, <<SeriesWith(AutoIncrementedOf(start, inc))>>)>> :
        len \in {"0", "4"}, start \in {0, 10}, inc \in {2, -1}}
    \cup {<<"AutoIncrementedValueSet", AutoIncrementedOf(start, inc)>> :
             start \in {0, 10}, inc \in {2, -1}}

\* Encoded value sets that carry a binary payload of some bytes, alone and
\* in a Series of each numeric series_type.  The codec declares no property
\* for the payload; "payload" stands for whichever property carries it.
EncodedOf(nbytes) ==
    With(Encoded, "payload", JArray([i \in 1..nbytes |-> JNumber(0)]))
PayloadSizes == {0, 4, 7, 8, 12, 16}
PayloadInputs ==
    {<<"EncodedValueSet", EncodedOf(n)>> : n \in PayloadSizes}
    \cup {<<"Series", With(SeriesWith(EncodedOf(n)), "series_type", JString(type))>> :
             n \in PayloadSizes, type \in {"I", "L", "F", "D"}}

\* Value sets of the three kinds with an index range, in order and reversed.
RangeInputs ==
    {<<in[1], Ranged(in[2], range[1], range[2])>> :
        in \in {<<"IndividualValueSet", IndividualOf(<<JNumber(1), JNumber(2), JNumber(3)>>)>>,
                <<"AutoIncrementedValueSet", AutoIncrementedOf(10, 2)>>,
                <<"EncodedValueSet", Encoded>>},
        range \in {<<"0", "2">>, <<"2", "2">>, <<"5", "2">>}}
    \cup {<<"Series", SeriesWith(Ranged(IndividualOf(<<JNumber(1), JNumber(2), JNumber(3)>>),
                                        range[1], range[2]))>> :
             range \in {<<"0", "2">>, <<"5", "2">>}}

\* SeriesSets of length 4 whose one Series holds one value set over a
\* sub-range, or a list of two.
RangedValues(start, end, count) ==
    Ranged(IndividualOf([i \in 1..count |-> JNumber(1)]), start, end)
CoverageInputs ==
    {<<"SeriesSet", SeriesSetLen("4", <<SeriesWith(RangedValues(range[1], range[2], range[3]))>>)>> :
        range \in {<<"0", "3", 4>>, <<"1", "2", 2>>, <<"0", "1", 2>>}}
    \cup {<<"SeriesSet", SeriesSetLen("4",
               <<SeriesWith(JArray(<<RangedValues("0", "1", 2),
                                     RangedValues(second[1], second[2], second[3])>>))>>)>> :
             second \in {<<"2", "3", 2>>, <<"3", "3", 1>>, <<"1", "3", 3>>}}

\* Documents whose one ExperimentStep refers to Samples and to other
\* ExperimentSteps.
DocWith(samples, steps) ==
    With(With(DocNull(SupportedVersion), "sample_set", SampleSetOf(samples)),
         "experiment_step_set", StepSetOf(steps))
SampleRef(sid) == With(Minimal("SampleReference"), "sample_id", JString(sid))
BulkRef(prefix) ==
    With(Minimal("ExperimentDataBulkReference"), "experiment_step_id_prefix", JString(prefix))
StepReferring(sid, sampleRefs, bulkRefs) ==
    With(StepOf(sid), "infrastructure",
         With(With(Minimal("Infrastructure"), "sample_reference_set",
                   With(Minimal("SampleReferenceSet"), "sample_reference", JArray(sampleRefs))),
              "experiment_data_reference_set",
              With(Minimal("ExperimentDataReferenceSet"), "experiment_data_bulk_reference",
                   JArray(bulkRefs))))
ReferenceInputs ==
    {<<"AnIML", DocWith(<<SampleOf("a")>>, <<StepReferring("a", refs, <<>>)>>)>> :
        refs \in {<<SampleRef("a")>>, <<SampleRef("b")>>, <<SampleRef("a"), SampleRef("b")>>}}
    \cup {<<"AnIML", DocWith(<<SampleOf("a"), Without(SampleOf("b"), "name")>>,
                             <<StepReferring("a", <<SampleRef("c")>>, <<>>)>>)>>}

StepIds == {"Step1", "Step2", "Run1"}
Prefixes == {"Step", "Run", "Step1", "X", ""}
BulkReferenceInputs ==
    {<<"AnIML", DocWith(<<>>, <<StepOf("Step1"), StepOf("Step2"),
                                StepReferring("Run1", <<>>, <<BulkRef(prefix)>>)>>)>> :
        prefix \in Prefixes}
    \cup {<<"AnIML", DocWith(<<>>, <<StepReferring("Run1", <<>>, <<BulkRef(prefix)>>)>>)>> :
             prefix \in {"Step", "Run"}}

\* Values with the JSON-LD properties of JsonLd, and one property no
\* interface knows, at the top and in nested entities.
JsonLd(u) ==
    With(With(With(u, "@context", JObject([key \in {"a"} |-> JString("b")])),
              "@id", JString("a")),
         "@type", JString("a"))
JsonLdInputs ==
    {<<"AnIML", JsonLd(DocNull(SupportedVersion))>>,
     <<"AnIML", JsonLd(With(DocNull(SupportedVersion), "sample_set",
                            JsonLd(SampleSetOf(<<JsonLd(SampleOf("a")), SampleOf("b")>>))))>>,
     <<"AnIML", With(DocNull(SupportedVersion), "extra", JNumber(1))>>,
     <<"SampleSet", SampleSetOf(<<With(JsonLd(SampleOf("a")), "tag_set",
                                       JsonLd(Minimal("TagSet")))>>)>>,
     <<"SampleSet", SampleSetOf(<<JsonLd(Without(SampleOf("a"), "name"))>>)>>}
    \cup {<<id, JsonLd(Minimal(id))>> : id \in CodecIds}

\* Every entity with one property null, with one optional property neither
\* null nor of any declared shape, and with one optional property holding
\* the smallest value of the shape that may stand in place of null.
InnerOf(codec) == IF codec.c = "nullable" THEN codec.or ELSE codec
OptionalInputs ==
    UNION {{<<id, With(Minimal(id), key, JNull)>> : key \in KeysOf(Thunk(id))}
           \cup {<<id, With(Minimal(id), key, JBoolean(TRUE))>> : key \in InterfaceOptional(id)}
           \cup {<<id, With(Minimal(id), key, MinimalOf(InnerOf(PropCodec(id, key))))>> :
                    key \in InterfaceOptional(id)} :
           id \in CodecIds}

Inputs ==
    DocInputs \cup MissingInputs \cup PairInputs \cup DefectInputs \cup SeriesInputs
    \cup EnumInputs \cup CardinalityInputs \cup EmptyListInputs
    \cup ValueListInputs \cup LengthInputs \cup TypedInputs \cup WideInputs
    \cup ProgressionInputs \cup PayloadInputs \cup RangeInputs
    \cup CoverageInputs \cup ReferenceInputs \cup BulkReferenceInputs
    \cup JsonLdInputs \cup OptionalInputs

\* The inputs of the runs that repeat calls.
RepeatInputs ==
    {<<"Sample", Minimal("Sample")>>,
     <<"Sample", Without(Minimal("Sample"), "name")>>,
     <<"SampleSet", SampleSetOf(<<SampleOf("a")>>)>>,
     <<"SampleSet", SampleSetOf(<<Without(SampleOf("a"), "name")>>)>>,
     <<"AnIML", DocNull("0.90")>>,
     <<"AnIML", DocOmitted("0.90")>>,
     <<"AnIML", DocEmpty("0.90")>>,
     <<"AnIML", With(DocNull("0.90"), "sample_set", SampleSetOf(<<SampleOf("a")>>))>>}

(***************************************************************************)
(* The state machine.                                                      *)
(***************************************************************************)
VARIABLES memo, call, outcome, ncalls, earlier, pending, visited

vars == <<memo, call, outcome, ncalls, earlier, pending, visited>>

NoCall == [codec |-> "", value |-> JUndefined]
NoOutcome == [kind |-> "none"]

Init ==
    /\ memo = <<>>
    /\ call = NoCall
    /\ outcome = NoOutcome
    /\ ncalls = 0
    /\ earlier = [called |-> FALSE, call |-> NoCall, outcome |-> NoOutcome]
    /\ pending = <<>>
    /\ visited = <<>>

\* validate(codec, value) with one of the exported codecs.
Validate(id, value) ==
    /\ call' = [codec |-> id, value |-> value]
    /\ outcome' = validate(DLazy(id), value, memo)
    /\ memo' = [x \in DOMAIN memo \cup Forced(DLazy(id), value, memo) |->
                   LazyGet(x, memo)]
    /\ ncalls' = ncalls + 1

Next ==
    /\ ncalls < MaxCalls
    /\ \E in \in Inputs : Validate(in[1], in[2])
    /\ UNCHANGED <<earlier, pending, visited>>

Spec == Init /\ [][Next]_vars

\* Runs that call validate repeatedly and keep one earlier call and its
\* outcome to compare with.
NextRepeat ==
    /\ ncalls < MaxRepeatCalls
    /\ \E in \in RepeatInputs : Validate(in[1], in[2])
    /\ \/ UNCHANGED earlier
       \/ /\ ncalls > 0
          /\ earlier' = [called |-> TRUE, call |-> call, outcome |-> outcome]
    /\ UNCHANGED <<pending, visited>>

SpecRepeat == Init /\ [][NextRepeat]_vars

\* Runs that validate a returned value once more, with the same codec.
Revalidate ==
    /\ ncalls > 0
    /\ ~earlier.called
    /\ outcome.kind = "return"
    /\ Validate(call.codec, outcome.value)
    /\ earlier' = [called |-> TRUE, call |-> call, outcome |-> outcome]
    /\ UNCHANGED <<pending, visited>>

NextAgain ==
    \/ /\ ncalls < MaxCalls
       /\ ~earlier.called
       /\ \E in \in Inputs : Validate(in[1], in[2])
       /\ UNCHANGED <<earlier, pending, visited>>
    \/ Revalidate

SpecAgain == Init /\ [][NextAgain]_vars

(***************************************************************************)
(* One call of validate, a decode at a time.  pending holds the decodes    *)
(* that are still to be made, the next one first; visited the places of    *)
(* the input a decoder has looked into, in the order of the descent.       *)
(***************************************************************************)
RECURSIVE Nested(_)
\* A Category with depth levels of Category in it, a SeriesSet and a
\* Parameter beside each.
Nested(depth) ==
    IF depth = 0 THEN Minimal("Category")
    ELSE With(With(With(Minimal("Category"),
                        "category", JArray(<<Nested(depth - 1), Minimal("Category")>>)),
                   "series_set", JArray(<<Minimal("SeriesSet")>>)),
              "parameter", JArray(<<Minimal("Parameter")>>))

RECURSIVE Chain(_, _)
\* A chain of depth Categories with the value last in its innermost list.
Chain(depth, last) ==
    IF depth = 0 THEN last
    ELSE With(Minimal("Category"), "category", JArray(<<Chain(depth - 1, last)>>))

TreeInputs ==
    {<<"Category", Nested(depth)>> : depth \in 0..MaxDepth}
    \cup {<<"Category", Chain(depth, last)>> :
             depth \in 1..(MaxDepth + 1),
             last \in {Minimal("Category"), Without(Minimal("Category"), "name"),
                       JNull, JString("a")}}
    \cup {<<"Sample", With(SampleOf("a"), "category", JArray(<<Nested(1)>>))>>}

\* What validate gives for each of these inputs.  No call was made before,
\* so no lazy codec is forced when the call begins.
TreeOutcomes == [in \in TreeInputs |-> validate(DLazy(in[1]), in[2], <<>>)]

Begin(id, value) ==
    /\ ncalls = 0
    /\ call' = [codec |-> id, value |-> value]
    /\ pending' = <<[codec |-> DLazy(id), u |-> value, path |-> <<>>]>>
    /\ visited' = <<>>
    /\ ncalls' = 1
    /\ UNCHANGED <<memo, outcome, earlier>>

Step ==
    /\ pending # <<>>
    /\ LET next == Head(pending)
       IN  /\ pending' = Children(next.codec, next.u, next.path, memo) \o Tail(pending)
           /\ visited' = IF HandsOn(next.codec, next.u) THEN visited
                          ELSE Append(visited, next.path)
           /\ memo' = IF next.codec.c = "lazy"
                       THEN [x \in DOMAIN memo \cup {next.codec.id} |-> LazyGet(x, memo)]
                       ELSE memo
    /\ UNCHANGED <<call, outcome, ncalls, earlier>>

Finish ==
    /\ ncalls = 1
    /\ pending = <<>>
    /\ outcome = NoOutcome
    /\ outcome' = TreeOutcomes[<<call.codec, call.value>>]
    /\ UNCHANGED <<memo, call, ncalls, earlier, pending, visited>>

NextSteps ==
    \/ \E in \in TreeInputs : Begin(in[1], in[2])
    \/ Step
    \/ Finish

\* A call that has begun goes on until it returns or throws.
SpecSteps == Init /\ [][NextSteps]_vars /\ WF_vars(Step) /\ WF_vars(Finish)

(***************************************************************************)
(* Reading an outcome.                                                     *)
(***************************************************************************)
Called == call.codec \in CodecIds
Thrown == outcome.kind = "throw"
Returned == outcome.kind = "return"

PropertySeg(key) == [s |-> "property", key |-> key]
IndexSeg(i) == [s |-> "index", index |-> i]

\* The line of msg above line j at depth d: the last one before j.
AncestorOf(msg, j, d) ==
    msg[CHOOSE i \in 1..(j - 1) :
            /\ msg[i].depth = d
            /\ \A i2 \in (i + 1)..(j - 1) : msg[i2].depth > d]

SegOf(line) ==
    IF line.s = "property" THEN PropertySeg(line.key) ELSE IndexSeg(line.index)

IsPathLine(line) == line.s \in {"property", "index"}

\* The properties and indexes line j of msg lies under, outermost first.
PathOf(msg, j) ==
    LET above == [d \in 1..msg[j].depth |-> AncestorOf(msg, j, d - 1)]
        kept == SelectSeq(above, IsPathLine)
    IN  [n \in 1..Len(kept) |-> SegOf(kept[n])]

\* The id of the lazy codec nearest above line j of msg.
EntityOf(msg, j) ==
    LET above == [d \in 1..msg[j].depth |-> AncestorOf(msg, j, d - 1)]
        lazies == SelectSeq(above, LAMBDA l : l.s = "lazy type")
    IN  IF lazies = <<>> THEN "" ELSE lazies[Len(lazies)].id

LeafLines(msg) == {j \in 1..Len(msg) : msg[j].s = "cannot decode"}
\* The places msg reports.  For a value that is neither null nor of the
\* shape that may stand in place of null the message has the line "should be
\* null" beside the lines of what is wrong with the shape: the latter tell
\* the places.
ReportedPaths(msg) ==
    {PathOf(msg, j) : j \in {l \in LeafLines(msg) : msg[l].expected # "null"}}
UndefinedLines(msg) == {j \in LeafLines(msg) : msg[j].actual = JUndefined}

RECURSIVE DefectPaths(_, _)
\* The places of an input that do not have the shape the codec declares:
\* a value that is not a string, number, array or object where one is
\* declared, null only where the codec allows it.
DefectPaths(codec, u) ==
    CASE codec.c = "string" -> IF u.k = "string" THEN {} ELSE {<<>>}
      [] codec.c = "number" -> IF u.k = "number" THEN {} ELSE {<<>>}
      [] codec.c = "nullable" -> IF u.k = "null" THEN {} ELSE DefectPaths(codec.or, u)
      [] codec.c = "array" ->
           IF u.k # "array" THEN {<<>>}
           ELSE UNION {{<<IndexSeg(i - 1)>> \o p : p \in DefectPaths(codec.item, u.v[i])} :
                       i \in 1..Len(u.v)}
      [] codec.c = "struct" ->
           IF u.k # "object" THEN {<<>>}
           ELSE UNION {{<<PropertySeg(codec.properties[i].key)>> \o p :
                           p \in DefectPaths(codec.properties[i].codec,
                                             Get(u, codec.properties[i].key))} :
                       i \in 1..Len(codec.properties)}
      [] codec.c = "lazy" -> DefectPaths(Thunk(codec.id), u)

Defects == DefectPaths(DLazy(call.codec), call.value)

(***************************************************************************)
(* C1: building a document succeeds only when its version is exactly the   *)
(* supported version "0.90"; any other version string is rejected.         *)
(***************************************************************************)
C1_OnlySupportedVersionBuilds ==
    (call.codec = "AnIML" /\ Returned) =>
        Get(call.value, "version") = JString(SupportedVersion)

(***************************************************************************)
(* C2: a document with a valid version and with SampleSet,                 *)
(* ExperimentStepSet and AuditTrailEntrySet all omitted is accepted.       *)
(***************************************************************************)
C2_OmittedSectionsAccepted ==
    (call.codec = "AnIML" /\ call.value = DocOmitted(SupportedVersion)) => Returned

(***************************************************************************)
(* C3: an input of any entity kind that lacks a field its interface        *)
(* declares required is rejected, and the message names the entity and,    *)
(* under it, the missing property as the value that cannot be decoded.     *)
(***************************************************************************)
MissingRequired ==
    IF Called /\ call.value.k = "object"
    THEN InterfaceRequired(call.codec) \ DOMAIN call.value.v
    ELSE {}

C3_MissingRequiredFieldReported ==
    \A key \in MissingRequired :
        /\ Thrown
        /\ outcome.message[1] = [depth |-> 0, s |-> "lazy type", id |-> call.codec]
        /\ \E j \in UndefinedLines(outcome.message) :
              /\ PathOf(outcome.message, j) = <<PropertySeg(key)>>
              /\ AncestorOf(outcome.message, j, 0).id = call.codec

C3_Witness ==
    /\ call.codec = "Series"
    /\ MissingRequired = {"series_type"}
    /\ Thrown

(***************************************************************************)
(* C4: one validation reports every defect of the input: the places the    *)
(* message reports are exactly the places where the input does not have    *)
(* the declared shape, in whatever fields, list elements or nested         *)
(* entities they lie.                                                      *)
(***************************************************************************)
C4_EveryDefectReported ==
    Called =>
        /\ Thrown <=> Defects # {}
        /\ Thrown => ReportedPaths(outcome.message) = Defects

C4_Witness ==
    /\ Thrown
    /\ \E p \in Defects, q \in Defects : Len(p) = 1 /\ Len(q) = 3
    /\ Cardinality(Defects) >= 3

C6_SameInputSameOutcome ==
    (earlier.called /\ earlier.call = call) => earlier.outcome = outcome

C6_Witness ==
    /\ earlier.called
    /\ earlier.call = call
    /\ call.codec = "Sample"
    /\ Thrown
    /\ "AnIML" \in DOMAIN memo

(***************************************************************************)
(* C7: a SampleSet with two Samples of the same sample_id is rejected, and *)
(* so is an ExperimentStepSet with two ExperimentSteps of the same         *)
(* experiment_step_id.                                                     *)
(***************************************************************************)
HasDuplicate(list, idKey) ==
    /\ list.k = "array"
    /\ \E i \in 1..Len(list.v), j \in 1..Len(list.v) :
          /\ i < j
          /\ list.v[i].k = "object"
          /\ list.v[j].k = "object"
          /\ Get(list.v[i], idKey).k = "string"
          /\ Get(list.v[i], idKey) = Get(list.v[j], idKey)

C7_DuplicateIdsRejected ==
    /\ (call.codec = "SampleSet"
        /\ HasDuplicate(Get(call.value, "sample"), "sample_id")) => Thrown
    /\ (call.codec = "ExperimentStepSet"
        /\ HasDuplicate(Get(call.value, "experiment_step"), "experiment_step_id")) => Thrown

(***************************************************************************)
(* C8: a SeriesSet with two Series of the same series_id is rejected,      *)
(* while one series_id used in two different SeriesSets is accepted.       *)
(***************************************************************************)
C8_SeriesIdUniquePerSeriesSet ==
    /\ (call.codec = "SeriesSet"
        /\ HasDuplicate(Get(call.value, "series"), "series_id")) => Thrown
    /\ (call.codec = "Category"
        /\ \E x \in Ids :
              call.value = With(Minimal("Category"), "series_set",
                               JArray(<<SeriesSetOf(<<SeriesOf(x)>>),
                                        SeriesSetOf(<<SeriesOf(x)>>)>>))) => Returned

(***************************************************************************)
(* C9 as stated: every Series that is built carries exactly one value-set  *)
(* variant; none, or more than one variant populated, is rejected.         *)
(***************************************************************************)
\* How many of the three variants a value_set populates: an object holds
\* individual values, a start value with an increment, both, or neither
\* (the encoded form, which has no field of its own).
PopulatedVariants(vs) ==
    IF vs.k # "object" THEN 0
    ELSE IF "values" \in DOMAIN vs.v /\ {"start_value", "increment"} \cap DOMAIN vs.v # {}
         THEN 2
         ELSE 1

VariantCodecs == {"IndividualValueSet", "EncodedValueSet", "AutoIncrementedValueSet"}

C10_AnyVariantAccepted ==
    \A variant \in VariantCodecs :
        LET vs == Get(call.value, "value_set")
            own == Decode(DLazy(variant), vs, <<>>)
        IN  (/\ call.codec = "Series"
             /\ call.value = With(Minimal("Series"), "value_set", vs)
             /\ PopulatedVariants(vs) = 1
             /\ ~isLeft(own)) =>
                /\ Returned
                /\ \A key \in DOMAIN own.right.v :
                      Get(Get(outcome.value, "value_set"), key) = own.right.v[key]

(***************************************************************************)
(* C11: fields of an enumerated domain are checked: a Diff whose scope is  *)
(* not 'element' or 'attribute', a SampleReference whose sample_purpose is *)
(* not 'produced' or 'consumed' and a Series whose dependency is not       *)
(* 'independent' or 'dependent' are rejected.                              *)
(***************************************************************************)
OutsideDomain(id, key, domain) ==
    /\ call.codec = id
    /\ Get(call.value, key).k = "string"
    /\ Get(call.value, key).v \notin domain

C11_EnumeratedDomainsChecked ==
    (\/ OutsideDomain("Diff", "scope", {"element", "attribute"})
     \/ OutsideDomain("SampleReference", "sample_purpose", {"produced", "consumed"})
     \/ OutsideDomain("Series", "dependency", {"independent", "dependent"}))
    => Thrown

(***************************************************************************)
(* C12: required lists may not be empty: a SeriesSet whose series list is  *)
(* empty and a ParentDataPointReferenceSet whose                           *)
(* parent_data_point_reference list is empty are rejected.                 *)
(***************************************************************************)
C12_EmptyRequiredListRejected ==
    (\/ call.codec = "SeriesSet" /\ Get(call.value, "series") = JArray(<<>>)
     \/ /\ call.codec = "ParentDataPointReferenceSet"
        /\ Get(call.value, "parent_data_point_reference") = JArray(<<>>))
    => Thrown

(***************************************************************************)
(* C13: cardinality is enforced in both directions: an input that gives a  *)
(* list for a property the interface declares single, or a single value    *)
(* that is no list for a property the interface declares a list, is        *)
(* rejected, and the message reports that property.                        *)
(***************************************************************************)
WrongCardinality ==
    IF Called /\ call.value.k = "object"
    THEN {key \in DOMAIN call.value.v \cap KeysOf(Thunk(call.codec)) :
             IF key \in InterfaceMultiple(call.codec)
             THEN call.value.v[key].k \in {"object", "string", "number", "boolean"}
             ELSE call.value.v[key].k = "array"}
    ELSE {}

C13_CardinalityEnforced ==
    \A key \in WrongCardinality :
        /\ Thrown
        /\ <<PropertySeg(key)>> \in ReportedPaths(outcome.message)

C13_WitnessSingularGivenList ==
    /\ call.codec = "Result"
    /\ WrongCardinality = {"series_set"}
    /\ Get(call.value, "series_set") = JArray(<<Minimal("SeriesSet")>>)
    /\ Thrown

C13_WitnessMultipleGivenSingle ==
    /\ call.codec = "Category"
    /\ WrongCardinality = {"parameter"}
    /\ Get(call.value, "parameter") = Minimal("Parameter")
    /\ Thrown

(***************************************************************************)
(* Reading the numbers an input gives as text.                             *)
(***************************************************************************)
Digits == {"0", "1", "2", "3", "4", "5", "6", "7", "8", "9"}
\* The number a one-digit decimal string denotes.
Decimal(str) ==
    CASE str = "0" -> 0 [] str = "1" -> 1 [] str = "2" -> 2 [] str = "3" -> 3
      [] str = "4" -> 4 [] str = "5" -> 5 [] str = "6" -> 6 [] str = "7" -> 7
      [] str = "8" -> 8 [] str = "9" -> 9

IsDecimal(u) == u.k = "string" /\ u.v \in Digits
HasRange(vs) == IsDecimal(Get(vs, "start_index")) /\ IsDecimal(Get(vs, "end_index"))
NoRange(vs) == Get(vs, "start_index") = JNull /\ Get(vs, "end_index") = JNull
RangeStart(vs) == Decimal(Get(vs, "start_index").v)
RangeEnd(vs) == Decimal(Get(vs, "end_index").v)

\* The Series of a SeriesSet value that carry explicit values.
WithValues(seriesSet) ==
    {i \in 1..Len(Get(seriesSet, "series").v) :
        /\ Get(seriesSet, "series").v[i].k = "object"
        /\ Get(Get(seriesSet, "series").v[i], "value_set").k = "object"
        /\ Get(Get(Get(seriesSet, "series").v[i], "value_set"), "values").k = "array"}

ValueSetAt(seriesSet, i) == Get(Get(seriesSet, "series").v[i], "value_set")

(***************************************************************************)
(* C14: in every SeriesSet that is built, the number of values of each     *)
(* Series equals the declared length, or the value set covers the          *)
(* sub-range start_index..end_index within it; a SeriesSet of length n     *)
(* with a different number of explicit values and no range is rejected.    *)
(***************************************************************************)
C14_ValueCountMatchesLength ==
    (call.codec = "SeriesSet" /\ Returned /\ IsDecimal(Get(outcome.value, "length"))) =>
        \A i \in WithValues(outcome.value) :
            LET vs == ValueSetAt(outcome.value, i)
                count == Len(Get(vs, "values").v)
                length == Decimal(Get(outcome.value, "length").v)
            IN  \/ NoRange(vs) /\ count = length
                \/ /\ HasRange(vs)
                   /\ count = RangeEnd(vs) - RangeStart(vs) + 1
                   /\ RangeEnd(vs) < length

(***************************************************************************)
(* C15: decoding an IndividualValueSet gives back its explicit values      *)
(* unchanged, in order and as many: for every list of numbers the built    *)
(* value set's values equal it element for element, whether the value set  *)
(* is validated alone or as the value_set of a Series.                     *)
(***************************************************************************)
AllNumbers(list) ==
    list.k = "array" /\ \A i \in 1..Len(list.v) : list.v[i].k = "number"

\* The value set an input holds: the input of IndividualValueSetCodec, or
\* the value_set of the input of SeriesCodec.
GivenValueSet ==
    IF call.codec = "IndividualValueSet" THEN call.value
    ELSE Get(call.value, "value_set")
BuiltValueSet ==
    IF call.codec = "IndividualValueSet" THEN outcome.value
    ELSE Get(outcome.value, "value_set")

C15_ValuesUnchanged ==
    (/\ call.codec \in {"IndividualValueSet", "Series"}
     /\ Defects = {}
     /\ GivenValueSet.k = "object"
     /\ AllNumbers(Get(GivenValueSet, "values"))) =>
        /\ Returned
        /\ Get(BuiltValueSet, "values") = Get(GivenValueSet, "values")
        /\ Len(Get(BuiltValueSet, "values").v) = Len(Get(GivenValueSet, "values").v)

C15_Witness ==
    /\ call.codec = "IndividualValueSet"
    /\ Get(call.value, "values") = JArray(<<JNumber(1), JNumber(2), JNumber(3)>>)
    /\ Returned
    /\ Get(outcome.value, "values") = JArray(<<JNumber(1), JNumber(2), JNumber(3)>>)
    /\ Len(Get(outcome.value, "values").v) = 3

(***************************************************************************)
(* C16: the element type of an IndividualValueSet follows the series_type  *)
(* of its Series: numbers under I, L, F and D, texts under S, booleans     *)
(* under Boolean are accepted; values of another type, and a series_type   *)
(* outside the six, are rejected.                                          *)
(***************************************************************************)
SeriesTypes == {"I", "L", "F", "D", "S", "Boolean"}
ElementKind(type) ==
    CASE type \in {"I", "L", "F", "D"} -> "number"
      [] type = "S" -> "string"
      [] type = "Boolean" -> "boolean"

\* A Series that is well formed but for its series_type and its values.
TypedSeriesCall ==
    /\ call.codec = "Series"
    /\ call.value.k = "object"
    /\ Get(call.value, "series_type").k = "string"
    /\ Get(call.value, "value_set").k = "object"
    /\ Get(Get(call.value, "value_set"), "values").k = "array"
    /\ With(With(call.value, "series_type", JString("a")), "value_set", JNull)
          = Minimal("Series")
    /\ With(Get(call.value, "value_set"), "values", JArray(<<>>))
          = Minimal("IndividualValueSet")

GivenType == Get(call.value, "series_type").v
GivenValues == Get(Get(call.value, "value_set"), "values").v

TypeMatches ==
    /\ GivenType \in SeriesTypes
    /\ \A i \in 1..Len(GivenValues) : GivenValues[i].k = ElementKind(GivenType)

C16_ElementTypeFollowsSeriesType ==
    TypedSeriesCall => (IF TypeMatches THEN Returned ELSE Thrown)

(***************************************************************************)
(* C17: a number outside the range of the declared width is rejected:      *)
(* under series_type I any value outside [-2^31, 2^31 - 1], under          *)
(* series_type L any value outside [-2^63, 2^63 - 1].                      *)
(***************************************************************************)
Bits(type) == IF type = "I" THEN 31 ELSE 63

\* Every JNumber of the model lies within 32 bits; sign * 2^exp lies within
\* the signed range of bits + 1 bits when exp < bits, or when it is -2^bits.
InRange(n, bits) ==
    IF "exp" \in DOMAIN n
    THEN n.exp < bits \/ (n.sign = -1 /\ n.exp = bits)
    ELSE TRUE

C17_OutOfRangeRejected ==
    (/\ TypedSeriesCall
     /\ GivenType \in {"I", "L"}
     /\ \E i \in 1..Len(GivenValues) :
           GivenValues[i].k = "number" /\ ~InRange(GivenValues[i], Bits(GivenType)))
    => Thrown

(***************************************************************************)
(* C18: an AutoIncrementedValueSet with start value s and increment d in a *)
(* SeriesSet of length n decodes to the values s + i*d for i in [0, n),    *)
(* the same on every decoding; s = 10, d = 2, n = 4 gives [10,12,14,16].   *)
(***************************************************************************)
\* The values a built value set stands for in a SeriesSet of length n.
Progression(vs, n) ==
    [i \in 1..n |-> Get(Get(vs, "start_value"), "value").v
                     + (i - 1) * Get(Get(vs, "increment"), "value").v]

IsAutoIncremented(vs) ==
    /\ vs.k = "object"
    /\ Get(vs, "start_value").k = "object"
    /\ Get(vs, "increment").k = "object"
    /\ Get(Get(vs, "start_value"), "value").k = "number"
    /\ Get(Get(vs, "increment"), "value").k = "number"

AutoIncrementedSeriesSetCall ==
    /\ call.codec = "SeriesSet"
    /\ call.value.k = "object"
    /\ IsDecimal(Get(call.value, "length"))
    /\ Get(call.value, "series").k = "array"
    /\ Len(Get(call.value, "series").v) = 1
    /\ Get(call.value, "series").v[1].k = "object"
    /\ IsAutoIncremented(ValueSetAt(call.value, 1))
    /\ call.value = SeriesSetLen(Get(call.value, "length").v,
                                 <<SeriesWith(ValueSetAt(call.value, 1))>>)

C18_AutoIncrementedDecodes ==
    AutoIncrementedSeriesSetCall =>
        /\ Returned
        /\ IsAutoIncremented(ValueSetAt(outcome.value, 1))
        /\ Progression(ValueSetAt(outcome.value, 1), Decimal(Get(outcome.value, "length").v))
             = Progression(ValueSetAt(call.value, 1), Decimal(Get(call.value, "length").v))

(***************************************************************************)
(* C19: an EncodedValueSet whose payload length is no multiple of the      *)
(* element width of the Series' series_type (4 bytes for I and F, 8 for L  *)
(* and D) is rejected; one whose length is a multiple is built and decodes *)
(* to length / width elements.                                             *)
(***************************************************************************)
Width(type) == IF type \in {"I", "F"} THEN 4 ELSE 8

HasPayload(vs) == vs.k = "object" /\ Get(vs, "payload").k = "array"

EncodedSeriesCall ==
    /\ call.codec = "Series"
    /\ call.value.k = "object"
    /\ Get(call.value, "series_type").k = "string"
    /\ Get(call.value, "series_type").v \in {"I", "L", "F", "D"}
    /\ HasPayload(Get(call.value, "value_set"))
    /\ Without(Get(call.value, "value_set"), "payload") = Encoded
    /\ With(With(call.value, "series_type", JString("a")), "value_set", JNull)
          = Minimal("Series")

PayloadLength(vs) == Len(Get(vs, "payload").v)

C19_PayloadMultipleOfWidth ==
    /\ EncodedSeriesCall =>
          IF PayloadLength(Get(call.value, "value_set")) % Width(GivenType) # 0
          THEN Thrown
          ELSE /\ Returned
               /\ HasPayload(Get(outcome.value, "value_set"))
               /\ PayloadLength(Get(outcome.value, "value_set")) \div Width(GivenType)
                    = PayloadLength(Get(call.value, "value_set")) \div Width(GivenType)
    /\ (call.codec = "EncodedValueSet" /\ HasPayload(call.value) /\ Returned) =>
          /\ HasPayload(outcome.value)
          /\ PayloadLength(outcome.value) = PayloadLength(call.value)

(***************************************************************************)
(* C20: in every value set that is built, of whichever variant, a          *)
(* start_index and end_index that are both given satisfy                   *)
(* start_index <= end_index; a value set with start_index > end_index is   *)
(* rejected.                                                               *)
(***************************************************************************)
C20_StartIndexNotAfterEndIndex ==
    /\ (call.codec \in VariantCodecs /\ Returned /\ HasRange(outcome.value)) =>
          RangeStart(outcome.value) <= RangeEnd(outcome.value)
    /\ (call.codec = "Series" /\ Returned
        /\ Get(outcome.value, "value_set").k = "object"
        /\ HasRange(Get(outcome.value, "value_set"))) =>
          RangeStart(Get(outcome.value, "value_set"))
            <= RangeEnd(Get(outcome.value, "value_set"))

(***************************************************************************)
(* C21: the sub-ranges of the value sets of a Series cover [0, length) of  *)
(* the enclosing SeriesSet with no gap and no overlap; a SeriesSet where   *)
(* they leave an index out, or two of them share one, is rejected.         *)
(***************************************************************************)
\* The value sets a Series value is given with: one, or a list of them.
ValueSetsOf(series) ==
    LET vs == Get(series, "value_set")
    IN  IF vs.k = "array" THEN vs.v ELSE IF vs.k = "object" THEN <<vs>> ELSE <<>>

Covered(sets, length) ==
    \A i \in 0..(length - 1) :
        Cardinality({n \in 1..Len(sets) : RangeStart(sets[n]) <= i /\ i <= RangeEnd(sets[n])}) = 1

RangedSeriesSetCall ==
    /\ call.codec = "SeriesSet"
    /\ call.value.k = "object"
    /\ IsDecimal(Get(call.value, "length"))
    /\ Get(call.value, "series").k = "array"
    /\ \A i \in 1..Len(Get(call.value, "series").v) :
          LET series == Get(call.value, "series").v[i]
          IN  /\ series.k = "object"
              /\ ValueSetsOf(series) # <<>>
              /\ \A n \in 1..Len(ValueSetsOf(series)) :
                    /\ ValueSetsOf(series)[n].k = "object"
                    /\ HasRange(ValueSetsOf(series)[n])

C21_RangesCoverLength ==
    (/\ RangedSeriesSetCall
     /\ \E i \in 1..Len(Get(call.value, "series").v) :
           ~Covered(ValueSetsOf(Get(call.value, "series").v[i]),
                    Decimal(Get(call.value, "length").v)))
    => Thrown

(***************************************************************************)
(* Reading the references of a document.                                   *)
(***************************************************************************)
At(u, key) == IF u.k = "object" THEN Get(u, key) ELSE JUndefined
Items(u) == IF u.k = "array" THEN u.v ELSE <<>>
Strings(list, key) ==
    {At(list[i], key).v : i \in {n \in 1..Len(list) : At(list[n], key).k = "string"}}

StepsOf(doc) == Items(At(At(doc, "experiment_step_set"), "experiment_step"))
SampleIds(doc) == Strings(Items(At(At(doc, "sample_set"), "sample")), "sample_id")
StepIdsOf(doc) == Strings(StepsOf(doc), "experiment_step_id")
SampleReferences(step) ==
    Items(At(At(At(step, "infrastructure"), "sample_reference_set"), "sample_reference"))
BulkReferences(step) ==
    Items(At(At(At(step, "infrastructure"), "experiment_data_reference_set"),
             "experiment_data_bulk_reference"))

\* What a call hands to its caller: the errors and the document.
ErrorPaths == IF Thrown THEN ReportedPaths(outcome.message) ELSE {}
DocumentReturned == Returned /\ outcome.value.k = "object"

(***************************************************************************)
(* C22: a SampleReference whose sample_id is the sample_id of no Sample of *)
(* the document is reported as an error at the reference, and the document *)
(* is returned all the same.                                               *)
(***************************************************************************)
SampleReferencePath(i, j) ==
    <<PropertySeg("experiment_step_set"), PropertySeg("experiment_step"), IndexSeg(i - 1),
      PropertySeg("infrastructure"), PropertySeg("sample_reference_set"),
      PropertySeg("sample_reference"), IndexSeg(j - 1), PropertySeg("sample_id")>>

DanglingSampleReferences ==
    IF call.codec # "AnIML" THEN {}
    ELSE UNION {{SampleReferencePath(i, j) :
                   j \in {n \in 1..Len(SampleReferences(StepsOf(call.value)[i])) :
                            LET id == At(SampleReferences(StepsOf(call.value)[i])[n], "sample_id")
                            IN  id.k = "string" /\ id.v \notin SampleIds(call.value)}} :
                i \in 1..Len(StepsOf(call.value))}

C22_DanglingSampleReferenceReported ==
    DanglingSampleReferences # {} =>
        /\ DanglingSampleReferences \subseteq ErrorPaths
        /\ DocumentReturned

(***************************************************************************)
(* C23: an ExperimentDataBulkReference is satisfied when its               *)
(* experiment_step_id_prefix is a prefix of the experiment_step_id of at   *)
(* least one ExperimentStep of the document, and is an error at the        *)
(* reference when it is the prefix of none.                                *)
(***************************************************************************)
\* prefix is a prefix of str, for the ids and prefixes of the documents here.
Rests == {"", "1", "2", "tep1", "tep2", "un1", "Step1", "Step2", "Run1"}
IsPrefix(prefix, str) == \E rest \in Rests : prefix \o rest = str

BulkReferencePath(i, j) ==
    <<PropertySeg("experiment_step_set"), PropertySeg("experiment_step"), IndexSeg(i - 1),
      PropertySeg("infrastructure"), PropertySeg("experiment_data_reference_set"),
      PropertySeg("experiment_data_bulk_reference"), IndexSeg(j - 1),
      PropertySeg("experiment_step_id_prefix")>>

UnmatchedBulkReferences ==
    IF call.codec # "AnIML" THEN {}
    ELSE UNION {{BulkReferencePath(i, j) :
                   j \in {n \in 1..Len(BulkReferences(StepsOf(call.value)[i])) :
                            LET prefix == At(BulkReferences(StepsOf(call.value)[i])[n],
                                             "experiment_step_id_prefix")
                            IN  /\ prefix.k = "string"
                                /\ \A id \in StepIdsOf(call.value) : ~IsPrefix(prefix.v, id)}} :
                i \in 1..Len(StepsOf(call.value))}

HasBulkReference ==
    /\ call.codec = "AnIML"
    /\ \E i \in 1..Len(StepsOf(call.value)) : BulkReferences(StepsOf(call.value)[i]) # <<>>

C23_BulkReferenceMatchesByPrefix ==
    HasBulkReference =>
        /\ UnmatchedBulkReferences \subseteq ErrorPaths
        /\ (UnmatchedBulkReferences = {} /\ Defects = {}) => Returned

(***************************************************************************)
(* C24: version has a default: a document given without a version is      *)
(* built, with "0.90" as its version.                                      *)
(***************************************************************************)
C24_VersionDefaultSubstituted ==
    (/\ call.codec = "AnIML"
     /\ call.value.k = "object"
     /\ Get(call.value, "version") = JUndefined
     /\ Defects \subseteq {<<PropertySeg("version")>>})
    => /\ Returned
       /\ Get(outcome.value, "version") = JString(SupportedVersion)

(***************************************************************************)
(* C25: validate is all-or-nothing: it returns a value only when the whole *)
(* input has the declared shape; when any field of any nested entity has   *)
(* not, it throws and hands back no value, not even of the parts that are  *)
(* well-shaped.                                                            *)
(***************************************************************************)
C25_AllOrNothing ==
    Called =>
        /\ Returned => Defects = {}
        /\ Defects # {} => (Thrown /\ "value" \notin DOMAIN outcome)

C25_Witness ==
    /\ call.codec = "AnIML"
    /\ Thrown
    /\ Defects = {<<PropertySeg("sample_set"), PropertySeg("sample"), IndexSeg(1),
                    PropertySeg("name")>>}
    /\ "value" \notin DOMAIN outcome

(***************************************************************************)
(* C26: the value validate returns has, at every entity, exactly the keys  *)
(* the entity's codec declares: every other property of the input is       *)
(* dropped, '@context', '@id' and '@type' among them.                      *)
(***************************************************************************)
RECURSIVE ExactKeys(_, _)
ExactKeys(codec, u) ==
    CASE codec.c \in {"string", "number"} -> TRUE
      [] codec.c = "nullable" -> u = JNull \/ ExactKeys(codec.or, u)
      [] codec.c = "array" ->
           u.k = "array" /\ \A i \in 1..Len(u.v) : ExactKeys(codec.item, u.v[i])
      [] codec.c = "struct" ->
           /\ u.k = "object"
           /\ DOMAIN u.v = KeysOf(codec)
           /\ \A i \in 1..Len(codec.properties) :
                 ExactKeys(codec.properties[i].codec, u.v[codec.properties[i].key])
      [] codec.c = "lazy" -> ExactKeys(Thunk(codec.id), u)

JsonLdKeys == {"@context", "@id", "@type"}

C26_OnlyDeclaredKeysReturned ==
    (Called /\ Returned) => ExactKeys(DLazy(call.codec), outcome.value)

C26_Witness ==
    /\ call.codec = "AnIML"
    /\ JsonLdKeys \cup {"version"} \subseteq DOMAIN call.value.v
    /\ Get(call.value, "sample_set").k = "object"
    /\ JsonLdKeys \subseteq DOMAIN Get(Get(call.value, "sample_set"), "sample").v[1].v
    /\ Returned
    /\ JsonLdKeys \cap DOMAIN outcome.value.v = {}
    /\ JsonLdKeys \cap DOMAIN Get(Get(outcome.value, "sample_set"), "sample").v[1].v = {}

(***************************************************************************)
(* C27: a field the interface declares optional and single, which the      *)
(* codec declares with D.nullable, is accepted exactly when it is null or  *)
(* has the shape of the inner codec; left out of the input it is rejected. *)
(***************************************************************************)
NullableKeys(id) == InterfaceOptional(id) \ InterfaceMultiple(id)

\* The message reports the property key of the input, or something in it.
FieldRejected(key) ==
    /\ Thrown
    /\ \E p \in ReportedPaths(outcome.message) : p # <<>> /\ p[1] = PropertySeg(key)

C27_NullableFieldNullOrInner ==
    (Called /\ call.value.k = "object") =>
        \A key \in NullableKeys(call.codec) :
            LET x == Get(call.value, key)
            IN  /\ x = JUndefined => FieldRejected(key)
                /\ x = JNull => ~FieldRejected(key)
                /\ x \notin {JUndefined, JNull} =>
                      (FieldRejected(key) <=>
                          DefectPaths(InnerOf(PropCodec(call.codec, key)), x) # {})

C27_Witness ==
    /\ call.codec = "Result"
    /\ call.value.k = "object"
    /\ "series_set" \notin DOMAIN call.value.v
    /\ FieldRejected("series_set")
    /\ Defects = {<<PropertySeg("series_set")>>}

(***************************************************************************)
(* C28: a list field the interface declares optional is accepted only when *)
(* it is an array, the empty one included: null and a property left out    *)
(* are both rejected, so a value of the entity's interface type may be     *)
(* rejected by the entity's codec.                                         *)
(***************************************************************************)
OptionalLists(id) == InterfaceOptional(id) \cap InterfaceMultiple(id)

C28_OptionalListMustBeArray ==
    (Called /\ call.value.k = "object") =>
        \A key \in OptionalLists(call.codec) :
            LET x == Get(call.value, key)
            IN  /\ x.k # "array" => FieldRejected(key)
                /\ x = JArray(<<>>) => ~FieldRejected(key)

C28_Witness ==
    /\ call.codec = "SampleSet"
    /\ call.value = JObject([key \in {"sample"} |-> JNull])
    /\ FieldRejected("sample")

(***************************************************************************)
(* C29: validate is idempotent on the inputs it accepts: validating the    *)
(* value it returned, with the same codec, succeeds and returns an equal   *)
(* value.                                                                  *)
(***************************************************************************)
Revalidated ==
    /\ earlier.called
    /\ earlier.outcome.kind = "return"
    /\ call = [codec |-> earlier.call.codec, value |-> earlier.outcome.value]

C29_ValidateIdempotent ==
    Revalidated => (Returned /\ outcome.value = earlier.outcome.value)

C29_Witness ==
    /\ Revalidated
    /\ call.codec = "AnIML"
    /\ earlier.call.value # earlier.outcome.value
    /\ Returned
    /\ outcome.value = call.value

(***************************************************************************)
(* C30: validating a Category within Category to any depth, with SeriesSet *)
(* and Parameter inside, ends: the call returns a value or throws, and on  *)
(* the way a decoder looks into each place of the input once; when a       *)
(* value is returned, into every place of it.                              *)
(***************************************************************************)
RECURSIVE PlacesOf(_)
\* The places of a value: the value itself, and the places in its
\* properties and elements.
PlacesOf(u) ==
    {<<>>} \cup
    CASE u.k = "object" ->
           UNION {{<<PropertySeg(key)>> \o p : p \in PlacesOf(u.v[key])} : key \in DOMAIN u.v}
      [] u.k = "array" ->
           UNION {{<<IndexSeg(i - 1)>> \o p : p \in PlacesOf(u.v[i])} : i \in 1..Len(u.v)}
      [] OTHER -> {}

Begun == ncalls = 1 /\ pending # <<>>
Finished == pending = <<>> /\ outcome.kind \in {"return", "throw"}
EachOnce(places) == \A i, j \in 1..Len(places) : places[i] = places[j] => i = j
PlacesVisited == {visited[i] : i \in 1..Len(visited)}

C30_CategoryValidationEnds ==
    /\ [](Begun => <>Finished)
    /\ [](EachOnce(visited))
    /\ []((Finished /\ Returned) => PlacesVisited = PlacesOf(outcome.value))

C30_Witness ==
    /\ Finished
    /\ call = [codec |-> "Category", value |-> Nested(MaxDepth)]
    /\ Returned
    /\ \E i \in 1..Len(visited) : Len(visited[i]) >= 2 * MaxDepth

=============================================================================
